---- MODULE Spec2Model ----
(***************************************************************************)
(* Model of the pdf-to-anki text extraction pipeline:                      *)
(*   LLMProcessor.process_text / create_cloze_deletions (llm_processor.py) *)
(*   PDFProcessor.parse_structured_qa / parse_content   (pdf_processor.py) *)
(*   PDFProcessor.extract_text / process_pdf            (pdf_processor.py) *)
(*   AnkiDeckGenerator.create_deck / create_cloze_deck  (anki_generator.py)*)
(*   PDFToAnkiApp._generate_deck                        (app.py)           *)
(* Strings are sequences of one-character strings, so that split, strip,   *)
(* startswith, replace, "in" and the regular expressions are computed      *)
(* character by character as Python computes them.                         *)
(***************************************************************************)
EXTENDS Integers, Sequences, FiniteSets, TLC

(***************************************************************************)
(* Bounds of the explored inputs                                           *)
(***************************************************************************)
\* number of lines of a completion text
MaxLines == 4
\* number of fragments of the text field of a single cloze candidate
MaxBody == 4
\* number of characters of a document text over the marker letters
MaxChars == 6
\* number of fragments of a document text over the marker fragments
MaxFrags == 4
\* number of 'Q: x / A: y' blocks of a document text made of blocks
MaxBlocks == 2
\* number of sentences the sentence segmenter may report
MaxSents == 3
\* number of words of a document text made of words
MaxWords == 4
\* pages of a PDF file
MaxPages == 2
\* items in a list handed to the deck generator
MaxItems == 3

(***************************************************************************)
(* Python str primitives                                                   *)
(***************************************************************************)
NL == "\n"

\* characters str.strip() and the regex class \s treat as whitespace
IsSpace(c) == c \in {" ", "\n", "\t", "\r"}

Min(a, b) == IF a < b THEN a ELSE b

\* s[i:] with a 0-based Python index i >= 0
Drop(s, i) == SubSeq(s, Min(i, Len(s)) + 1, Len(s))

\* s.startswith(p)
StartsWith(s, p) == Len(s) >= Len(p) /\ SubSeq(s, 1, Len(p)) = p

\* p occurs in s at the 1-based position i
HasAt(s, i, p) == i >= 1 /\ i + Len(p) - 1 <= Len(s) /\ SubSeq(s, i, i + Len(p) - 1) = p

\* p in s
Contains(s, p) == \E i \in 1..(Len(s) + 1) : HasAt(s, i, p)

RECURSIVE LStrip(_)
LStrip(s) == IF s # <<>> /\ IsSpace(Head(s)) THEN LStrip(Tail(s)) ELSE s

RECURSIVE RStrip(_)
RStrip(s) == IF s # <<>> /\ IsSpace(s[Len(s)]) THEN RStrip(SubSeq(s, 1, Len(s) - 1)) ELSE s

\* s.strip()
Strip(s) == RStrip(LStrip(s))

\* s.split('\n'): always at least one piece, empty pieces are kept
RECURSIVE SplitFrom(_, _, _)
SplitFrom(s, i, cur) ==
    IF i > Len(s) THEN <<cur>>
    ELSE IF s[i] = NL THEN <<cur>> \o SplitFrom(s, i + 1, <<>>)
    ELSE SplitFrom(s, i + 1, Append(cur, s[i]))

Split(s) == SplitFrom(s, 1, <<>>)

\* '\n'.join(parts)
RECURSIVE Join(_)
Join(parts) ==
    IF parts = <<>> THEN <<>>
    ELSE IF Len(parts) = 1 THEN parts[1]
    ELSE parts[1] \o <<NL>> \o Join(Tail(parts))

\* s.replace(old, new): non-overlapping occurrences, left to right
RECURSIVE ReplaceFrom(_, _, _, _)
ReplaceFrom(s, i, old, new) ==
    IF i > Len(s) THEN <<>>
    ELSE IF HasAt(s, i, old) THEN new \o ReplaceFrom(s, i + Len(old), old, new)
    ELSE <<s[i]>> \o ReplaceFrom(s, i + 1, old, new)

Replace(s, old, new) == ReplaceFrom(s, 1, old, new)

\* concatenation of a sequence of strings
RECURSIVE Concat(_)
Concat(parts) == IF parts = <<>> THEN <<>> ELSE Head(parts) \o Concat(Tail(parts))

\* all sequences over S of length 0..n
SeqsUpTo(S, n) == UNION {[1..k -> S] : k \in 0..n}

Range(f) == {f[i] : i \in DOMAIN f}

(***************************************************************************)
(* Completion parser shared by process_text ('Q:'/'A:') and                *)
(* create_cloze_deletions ('Text:'/'Extra:')                               *)
(***************************************************************************)
QMarker == <<"Q", ":">>
AMarker == <<"A", ":">>
TextMarker == <<"T", "e", "x", "t", ":">>
ExtraMarker == <<"E", "x", "t", "r", "a", ":">>

\* current_question = None is [set |-> FALSE]; a string is [set |-> TRUE, v |-> string]
NoneStr == [set |-> FALSE, v |-> <<>>]
Some(s) == [set |-> TRUE, v |-> s]

\* variant: only None is false ("is not None" instead of truthiness)
Truthy_NotNone(o) == o.set

\* truth value of an Optional[str]: None and '' are false
Truthy(o) == o.set /\ o.v # <<>>

\* state of the loop before the first line
ParserInit == [pairs |-> <<>>, key1 |-> NoneStr, key2 |-> <<>>]

\* the pair appended when a record is saved
Flushed(st) == <<st.key1.v, Strip(Join(st.key2))>>

\* "if current_question and current_answer": a non-empty list is true
FlushGuard(st) == Truthy(st.key1) /\ st.key2 # <<>>

\* "elif current_answer is not None": the list is never None
AppendGuard(st) == TRUE

\* variant: a key-2 marker line is appended to the accumulation
ParseLine_Key2Appends(st, raw, m1, m2) ==
    LET line == Strip(raw) IN
    IF line = <<>> THEN st
    ELSE IF StartsWith(line, m1) THEN
        [pairs |-> IF FlushGuard(st) THEN Append(st.pairs, Flushed(st)) ELSE st.pairs,
         key1 |-> Some(Strip(Drop(line, Len(m1)))),
         key2 |-> <<>>]
    ELSE IF StartsWith(line, m2) THEN
        [st EXCEPT !.key2 = Append(st.key2, Strip(Drop(line, Len(m2))))]
    ELSE [st EXCEPT !.key2 = Append(st.key2, line)]

\* variant: a blank line resets the key-2 accumulation
ParseLine_BlankResets(st, raw, m1, m2) ==
    LET line == Strip(raw) IN
    IF line = <<>> THEN [st EXCEPT !.key2 = <<>>]
    ELSE IF StartsWith(line, m1) THEN
        [pairs |-> IF FlushGuard(st) THEN Append(st.pairs, Flushed(st)) ELSE st.pairs,
         key1 |-> Some(Strip(Drop(line, Len(m1)))),
         key2 |-> <<>>]
    ELSE IF StartsWith(line, m2) THEN
        [st EXCEPT !.key2 = <<Strip(Drop(line, Len(m2)))>>]
    ELSE [st EXCEPT !.key2 = Append(st.key2, line)]

\* one iteration of "for line in response.split('\n')"
ParseLine(st, raw, m1, m2) ==
    LET line == Strip(raw) IN
    IF line = <<>> THEN st
    ELSE IF StartsWith(line, m1) THEN
        [pairs |-> IF FlushGuard(st) THEN Append(st.pairs, Flushed(st)) ELSE st.pairs,
         key1 |-> Some(Strip(Drop(line, Len(m1)))),
         key2 |-> <<>>]
    ELSE IF StartsWith(line, m2) THEN
        [st EXCEPT !.key2 = <<Strip(Drop(line, Len(m2)))>>]
    ELSE IF AppendGuard(st) THEN
        [st EXCEPT !.key2 = Append(st.key2, line)]
    ELSE st

RECURSIVE ParseLines(_, _, _, _)
ParseLines(st, lines, m1, m2) ==
    IF lines = <<>> THEN st
    ELSE ParseLines(ParseLine(st, Head(lines), m1, m2), Tail(lines), m1, m2)

\* variant: the record pending at the end of the input is not added
ParseRecords_NoFinalFlush(response, m1, m2) ==
    ParseLines(ParserInit, Split(response), m1, m2).pairs

\* the loop and the final "add last pair"
ParseRecords(response, m1, m2) ==
    LET st == ParseLines(ParserInit, Split(response), m1, m2) IN
    IF FlushGuard(st) THEN Append(st.pairs, Flushed(st)) ELSE st.pairs

(***************************************************************************)
(* Prompt templates and str.format                                         *)
(***************************************************************************)
\* A template is the sequence of the pieces str.format distinguishes:
\* "lit" (literal text), the escapes "{{" and "}}", and replacement fields.
StandardPrompt == <<"lit", "{text}", "lit">>

default_cloze_prompt ==
    <<"lit", "{{", "lit", "}}", "lit", "{{", "lit", "}}", "lit", "{{", "lit", "}}",
      "lit", "{{", "lit", "}}", "lit", "{{", "lit", "}}", "lit", "{{", "lit", "}}",
      "lit", "{{", "lit", "}}", "lit", "{ }", "lit", "{text}", "lit">>

IsField(tok) == tok \notin {"lit", "{{", "}}"}

FormatPiece(tok, text) ==
    IF tok = "{{" THEN <<"{">>
    ELSE IF tok = "}}" THEN <<"}">>
    ELSE IF tok = "{text}" THEN text
    ELSE <<tok>>

\* prompt.format(text=text): KeyError on any field other than {text}
Format(tpl, text) ==
    [ok |-> \A i \in DOMAIN tpl : IsField(tpl[i]) => tpl[i] = "{text}",
     value |-> Concat([i \in DOMAIN tpl |-> FormatPiece(tpl[i], text)])]

NoPrompt == [set |-> FALSE, v |-> <<>>]
CustomPrompts == {NoPrompt, [set |-> TRUE, v |-> <<"lit", "{text}">>], [set |-> TRUE, v |-> <<"lit", "{x}">>]}

\* "custom_prompt if custom_prompt else default"
ChoosePrompt(cp, default) == IF cp.set /\ cp.v # <<>> THEN cp.v ELSE default

(***************************************************************************)
(* Cloze repair and validation (create_cloze_deletions, second loop)       *)
(***************************************************************************)
\* variant: the "'{{' not in text" test is missing
NeedsRepair_NoDoubleCheck(text) ==
    /\ Contains(text, <<"{", "c">>)
    /\ Contains(text, <<":", ":">>)
    /\ Contains(text, <<"}">>)

NeedsRepair(text) ==
    /\ Contains(text, <<"{", "c">>)
    /\ Contains(text, <<":", ":">>)
    /\ Contains(text, <<"}">>)
    /\ ~Contains(text, <<"{", "{">>)

FixedText(text) ==
    IF NeedsRepair(text)
    THEN Replace(Replace(text, <<"{", "c">>, <<"{", "{", "c">>), <<"}">>, <<"}", "}">>)
    ELSE text

\* variant: the closing '}}' is not required
IsValidCloze_NoClose(fixed) ==
    /\ Contains(fixed, <<"{", "{", "c">>)
    /\ Contains(fixed, <<":", ":">>)

IsValidCloze(fixed) ==
    /\ Contains(fixed, <<"{", "{", "c">>)
    /\ Contains(fixed, <<":", ":">>)
    /\ Contains(fixed, <<"}", "}">>)

\* variant: the loop stops at the first candidate that is not valid
RECURSIVE ValidateItems_StopAtInvalid(_)
ValidateItems_StopAtInvalid(items) ==
    IF items = <<>> THEN <<>>
    ELSE IF IsValidCloze(FixedText(Head(items)[1]))
    THEN <<(<<FixedText(Head(items)[1]), Head(items)[2]>>)>> \o ValidateItems_StopAtInvalid(Tail(items))
    ELSE <<>>

RECURSIVE ValidateItems(_)
ValidateItems(items) ==
    IF items = <<>> THEN <<>>
    ELSE LET fixed == FixedText(Head(items)[1]) IN
         (IF IsValidCloze(fixed) THEN <<(<<fixed, Head(items)[2]>>)>> ELSE <<>>)
             \o ValidateItems(Tail(items))

(***************************************************************************)
(* Regular expressions of parse_structured_qa, matched as re.findall does  *)
(* with re.DOTALL | re.IGNORECASE: leftmost match, alternatives tried by   *)
(* backtracking in priority order (greedy: longest first, lazy: shortest   *)
(* first).  A position is the 1-based index of the next character.         *)
(***************************************************************************)
Lower(c) ==
    CASE c = "Q" -> "q" [] c = "A" -> "a" [] c = "U" -> "u" [] c = "E" -> "e"
      [] c = "S" -> "s" [] c = "T" -> "t" [] c = "I" -> "i" [] c = "O" -> "o"
      [] c = "N" -> "n" [] c = "W" -> "w" [] c = "R" -> "r" [] c = "X" -> "x"
      [] c = "Y" -> "y" [] OTHER -> c

\* the literal lit (given in lower case) matches at position i, ignoring case
HasAtCI(t, i, lit) ==
    /\ i >= 1
    /\ i + Len(lit) - 1 <= Len(t)
    /\ \A k \in 1..Len(lit) : Lower(t[i + k - 1]) = lit[k]

\* the character class [\s:]
IsSep(c) == IsSpace(c) \/ c = ":"

\* end of the longest run of [\s:] (withColon) or [\s] characters starting at i
RECURSIVE RunEnd(_, _, _)
RunEnd(t, i, withColon) ==
    IF i <= Len(t) /\ (IF withColon THEN IsSep(t[i]) ELSE IsSpace(t[i]))
    THEN RunEnd(t, i + 1, withColon) ELSE i

\* positions i, i-1, ..., lo in that order
RECURSIVE Downto(_, _)
Downto(i, lo) == IF i < lo THEN <<>> ELSE <<i>> \o Downto(i - 1, lo)

\* the two patterns of the list "patterns": the plain one and the '###' one
PlainPattern == [hash |-> FALSE, minSep |-> 1]
HashPattern == [hash |-> TRUE, minSep |-> 0]
patterns == <<PlainPattern, HashPattern>>

\* ends of the optional prefix "###[\s]*" at p, greedy order
PrefixEnds(pat, t, p) ==
    IF ~pat.hash THEN <<p>>
    ELSE IF HasAtCI(t, p, <<"#", "#", "#">>) THEN Downto(RunEnd(t, p + 3, FALSE), p + 3)
    ELSE <<>>

\* ends of "Q(?:uestion)?" resp. "A(?:nswer)?" at p: the long form first
MarkEnds(t, p, first, rest) ==
    IF ~HasAtCI(t, p, <<first>>) THEN <<>>
    ELSE IF HasAtCI(t, p + 1, rest) THEN <<p + 1 + Len(rest), p + 1>>
    ELSE <<p + 1>>

\* ends of prefix followed by marker, in backtracking order
RECURSIVE MarkerEndsFrom(_, _, _, _)
MarkerEndsFrom(t, prefixEnds, first, rest) ==
    IF prefixEnds = <<>> THEN <<>>
    ELSE MarkEnds(t, Head(prefixEnds), first, rest) \o MarkerEndsFrom(t, Tail(prefixEnds), first, rest)

QEnds(pat, t, p) == MarkerEndsFrom(t, PrefixEnds(pat, t, p), "q", <<"u", "e", "s", "t", "i", "o", "n">>)
AEnds(pat, t, p) == MarkerEndsFrom(t, PrefixEnds(pat, t, p), "a", <<"n", "s", "w", "e", "r">>)

\* "$" without re.MULTILINE: at the end, or before a final newline
AtEnd(t, e) == e = Len(t) + 1 \/ (e = Len(t) /\ t[e] = NL)

\* the lookahead (?=Q(?:uestion)?[\s:]|$) resp. (?=###[\s]*Q|$)
Lookahead(pat, t, e) ==
    \/ IF pat.hash
       THEN \E m \in Range(PrefixEnds(pat, t, e)) : HasAtCI(t, m, <<"q">>)
       ELSE \E m \in Range(QEnds(pat, t, e)) : m <= Len(t) /\ IsSep(t[m])
    \/ AtEnd(t, e)

\* second group (.*?) from s2: the first end where the lookahead holds
RECURSIVE Group2(_, _, _)
Group2(pat, t, e) ==
    IF e > Len(t) + 1 THEN <<>>
    ELSE IF Lookahead(pat, t, e) THEN <<e>>
    ELSE Group2(pat, t, e + 1)

\* separator after the answer marker: candidate ends, longest first
RECURSIVE Sep2(_, _, _)
Sep2(pat, t, ends) ==
    IF ends = <<>> THEN <<>>
    ELSE LET r == Group2(pat, t, Head(ends)) IN
         IF r # <<>> THEN <<[s2 |-> Head(ends), end |-> r[1]]>>
         ELSE Sep2(pat, t, Tail(ends))

SepEnds(pat, t, m) == Downto(RunEnd(t, m, TRUE), m + pat.minSep)

\* answer marker alternatives in order
RECURSIVE AnswerPart(_, _, _)
AnswerPart(pat, t, ends) ==
    IF ends = <<>> THEN <<>>
    ELSE LET r == Sep2(pat, t, SepEnds(pat, t, Head(ends))) IN
         IF r # <<>> THEN r ELSE AnswerPart(pat, t, Tail(ends))

\* the groups and the end of a match whose answer part r starts at a0
Groups(t, s1, a0, r) ==
    [q |-> SubSeq(t, s1, a0 - 1), a |-> SubSeq(t, r.s2, r.end - 1), end |-> r.end]

\* first group (.*?) from s1: the first a0 >= s1 where the rest matches
RECURSIVE Group1(_, _, _, _)
Group1(pat, t, s1, a0) ==
    IF a0 > Len(t) + 1 THEN <<>>
    ELSE IF AnswerPart(pat, t, AEnds(pat, t, a0)) = <<>> THEN Group1(pat, t, s1, a0 + 1)
    ELSE <<Groups(t, s1, a0, AnswerPart(pat, t, AEnds(pat, t, a0))[1])>>

\* separator after the question marker: candidate ends, longest first
RECURSIVE Sep1(_, _, _)
Sep1(pat, t, ends) ==
    IF ends = <<>> THEN <<>>
    ELSE LET r == Group1(pat, t, Head(ends), Head(ends)) IN
         IF r # <<>> THEN r ELSE Sep1(pat, t, Tail(ends))

\* question marker alternatives in order
RECURSIVE QuestionPart(_, _, _)
QuestionPart(pat, t, ends) ==
    IF ends = <<>> THEN <<>>
    ELSE LET r == Sep1(pat, t, SepEnds(pat, t, Head(ends))) IN
         IF r # <<>> THEN r ELSE QuestionPart(pat, t, Tail(ends))

\* the match of the pattern starting exactly at p: <<>> or <<[q, a, end]>>
MatchAt(pat, t, p) == QuestionPart(pat, t, QEnds(pat, t, p))

\* what findall records of a match, and where it resumes the search
GroupsOf(m) == <<m.q, m.a>>
NextStart(m, p) == IF m.end > p THEN m.end ELSE p + 1

\* re.findall(pattern, text): the groups of the non-overlapping matches
RECURSIVE FindAll(_, _, _)
FindAll(pat, t, p) ==
    IF p > Len(t) THEN <<>>
    ELSE IF MatchAt(pat, t, p) = <<>> THEN FindAll(pat, t, p + 1)
    ELSE <<GroupsOf(MatchAt(pat, t, p)[1])>> \o FindAll(pat, t, NextStart(MatchAt(pat, t, p)[1], p))

\* [(q.strip(), a.strip()) for q, a in matches if q.strip() and a.strip()]
RECURSIVE StripPairs(_)
StripPairs(matches) ==
    IF matches = <<>> THEN <<>>
    ELSE LET q == Strip(Head(matches)[1])
             a == Strip(Head(matches)[2]) IN
         (IF q # <<>> /\ a # <<>> THEN <<(<<q, a>>)>> ELSE <<>>) \o StripPairs(Tail(matches))

\* the pairs one pattern contributes
PatternPairs(pat, text) == StripPairs(FindAll(pat, text, 1))

\* "for pattern in patterns: ... qa_pairs.extend(...)": the loop has no break
RECURSIVE ExtendAll(_, _, _)
ExtendAll(qa_pairs, pats, text) ==
    IF pats = <<>> THEN qa_pairs
    ELSE ExtendAll(qa_pairs \o PatternPairs(Head(pats), text), Tail(pats), text)

parse_structured_qa(text) == ExtendAll(<<>>, patterns, text)

(***************************************************************************)
(* Sentence heuristics: is_question, parse_unstructured_text               *)
(***************************************************************************)
IsPunct(c) == c \in {"?", ".", "!", ","}

\* end of the run of characters of the same token class starting at i
RECURSIVE WordEnd(_, _)
WordEnd(t, i) ==
    IF i <= Len(t) /\ ~IsSpace(t[i]) /\ ~IsPunct(t[i]) THEN WordEnd(t, i + 1) ELSE i

\* doc = self.nlp(text); doc[0].text: the tokens of the tokenizer are the
\* whitespace-separated words with punctuation split off; <<>> if no token
FirstToken(t) ==
    IF t = <<>> THEN <<>>
    ELSE IF IsSpace(t[1]) THEN <<SubSeq(t, 1, RunEnd(t, 1, FALSE) - 1)>>
    ELSE IF IsPunct(t[1]) THEN <<(<<t[1]>>)>>
    ELSE <<SubSeq(t, 1, WordEnd(t, 1) - 1)>>

LowerStr(w) == [i \in DOMAIN w |-> Lower(w[i])]

question_words ==
    { <<"w", "h", "a", "t">>, <<"w", "h", "y">>, <<"h", "o", "w">>, <<"w", "h", "e", "n">>,
      <<"w", "h", "e", "r", "e">>, <<"w", "h", "i", "c", "h">>, <<"w", "h", "o">>,
      <<"w", "h", "o", "s", "e">>, <<"w", "h", "o", "m">> }

aux_verbs ==
    { <<"i", "s">>, <<"a", "r", "e">>, <<"w", "a", "s">>, <<"w", "e", "r", "e">>, <<"d", "o">>,
      <<"d", "o", "e", "s">>, <<"d", "i", "d">>, <<"h", "a", "v", "e">>, <<"h", "a", "s">>,
      <<"h", "a", "d">>, <<"c", "a", "n">>, <<"c", "o", "u", "l", "d">>,
      <<"s", "h", "o", "u", "l", "d">>, <<"w", "o", "u", "l", "d">>, <<"w", "i", "l", "l">> }

\* is_question: "yes", "no", or "IndexError" when doc[0] does not exist
is_question(t) ==
    IF Contains(t, <<"?">>) THEN "yes"
    ELSE IF FirstToken(t) = <<>> THEN "IndexError"
    ELSE LET first_word == LowerStr(FirstToken(t)[1]) IN
         IF first_word \in question_words THEN "yes"
         ELSE IF first_word \in aux_verbs THEN "yes"
         ELSE "no"

\* positions where a sentence may start: a word that follows whitespace
Boundaries(t) == { i \in 2..Len(t) : IsSpace(t[i - 1]) /\ ~IsSpace(t[i]) }

\* the pieces of t cut at the positions of cuts
RECURSIVE Pieces(_, _, _, _)
Pieces(t, cuts, start, i) ==
    IF i > Len(t) THEN <<SubSeq(t, start, Len(t))>>
    ELSE IF i \in cuts THEN <<SubSeq(t, start, i - 1)>> \o Pieces(t, cuts, i, i + 1)
    ELSE Pieces(t, cuts, start, i + 1)

\* doc.sents: the segmenter is a statistical model, so every segmentation at
\* word starts is a possible outcome; the empty text has no sentence
Segmentations(t) ==
    IF t = <<>> THEN { <<>> }
    ELSE { Pieces(t, cuts, 1, 1) : cuts \in { c \in SUBSET Boundaries(t) : Cardinality(c) < MaxSents } }

\* sentences = [sent.text.strip() for sent in doc.sents]
StripAll(sents) == [i \in DOMAIN sents |-> Strip(sents[i])]

\* the loop over sentences[:-1]; raised when is_question raises
\* one iteration for a sentence with classification isq, then the rest
Paired(isq, pair, rest) ==
    IF isq = "IndexError" THEN [raised |-> TRUE, pairs |-> <<>>]
    ELSE IF rest.raised THEN rest
    ELSE [raised |-> FALSE, pairs |-> (IF isq = "yes" THEN <<pair>> ELSE <<>>) \o rest.pairs]

RECURSIVE PairUp(_, _)
PairUp(sentences, i) ==
    IF i >= Len(sentences) THEN [raised |-> FALSE, pairs |-> <<>>]
    ELSE Paired(is_question(sentences[i]), <<sentences[i], sentences[i + 1]>>,
                PairUp(sentences, i + 1))

parse_unstructured_text(sents) == PairUp(StripAll(sents), 1)

(***************************************************************************)
(* Inputs                                                                  *)
(***************************************************************************)
\* input texts of process_text / create_cloze_deletions: '', ' ', 'x'
Texts == {<<>>, <<" ">>, <<"x">>}

\* lines a Q/A completion is made of
QALines ==
    { <<"Q", ":", " ", "x">>, <<"Q", ":", " ", "w", " ">>, <<"Q", ":", " ", " ">>,
      <<"A", ":", " ", "y">>, <<"A", ":", " ", " ">>,
      <<"z">>, <<>> }

\* lines a cloze completion is made of
ClozeLines ==
    { TextMarker \o <<" ", "{", "c", "1", ":", ":", "x", "}">>,
      TextMarker \o <<" ", "{", "{", "c", "1", ":", ":", "x", "}", "}">>,
      TextMarker \o <<" ", "x">>,
      TextMarker,
      ExtraMarker \o <<" ", "e">>,
      <<"z">>, <<>> }

\* fragments the text field of a single cloze candidate is made of
BodyFrags == { <<"{">>, <<"}">>, <<"c">>, <<"1">>, <<":", ":">>, <<"{", "{">>, <<"}", "}">> }

\* completions of Text/Extra records with an arbitrary text field
BodyResponses ==
    { TextMarker \o <<" ">> \o Concat(b) \o <<NL>> \o ExtraMarker \o <<" ", "e">> :
        b \in SeqsUpTo(BodyFrags, MaxBody) }

QAResponses == { Join(ls) : ls \in SeqsUpTo(QALines, MaxLines) }
ClozeResponses == { Join(ls) : ls \in SeqsUpTo(ClozeLines, MaxLines) } \cup BodyResponses

\* what get_llm_completion returns: (False, error text) or (True, completion)
Failure(e) == [success |-> FALSE, response |-> e]
Completion(r) == [success |-> TRUE, response |-> r]
NoCompletion == Failure(<<>>)

\* one complete record of each kind: 'Q: x\nA: y' and 'Text: {{c1::x}}\nExtra: e'
QARecord == <<"Q", ":", " ", "x", NL, "A", ":", " ", "y">>
ClozeRecord ==
    TextMarker \o <<" ", "{", "{", "c", "1", ":", ":", "x", "}", "}", NL>> \o ExtraMarker \o <<" ", "e">>

\* failures with any error text, content-free completions and one-record completions
BasicCompletions ==
    { Failure(<<>>), Failure(<<"e", "r", "r">>), Failure(QARecord), Failure(ClozeRecord),
      Completion(<<>>), Completion(<<" ">>), Completion(<<" ", NL>>),
      Completion(QARecord), Completion(ClozeRecord) }

UsablePrompt == [set |-> TRUE, v |-> <<"lit", "{text}">>]

\* the calls of an LLMProcessor method o: every text and prompt with the
\* basic completions, and the text 'x' with every completion of responses
LLMCalls(o, cp, responses) ==
    { [op |-> o, text |-> t, custom_prompt |-> p, backend |-> c] :
        t \in Texts, p \in CustomPrompts, c \in BasicCompletions }
    \cup { [op |-> o, text |-> <<"x">>, custom_prompt |-> cp, backend |-> Completion(r)] :
             r \in responses }

\* document texts: every string over the letters of the markers and a blank
DocChars == { "Q", "a", " ", "x" }
CharTexts == SeqsUpTo(DocChars, MaxChars)

\* document texts made of marker fragments, with and without '###'
DocFrags ==
    { <<"#", "#", "#", "Q", ":">>, <<"#", "#", "#", "A", ":">>,
      <<"Q", ":">>, <<"A", ":">>, <<"x">>, <<NL>> }
FragTexts == { Concat(fs) : fs \in SeqsUpTo(DocFrags, MaxFrags) }

\* document texts made of 'Q: x\nA: y' and 'Question: x\nAnswer: y' blocks
Contents == { <<"x">>, <<"a", " ", "x">> }
ShortBlock(x, y) == <<"Q", ":", " ">> \o x \o <<NL, "A", ":", " ">> \o y
LongBlock(x, y) ==
    <<"Q", "u", "e", "s", "t", "i", "o", "n", ":", " ">> \o x
        \o <<NL, "A", "n", "s", "w", "e", "r", ":", " ">> \o y
Blocks == { ShortBlock(x, y) : x \in Contents, y \in Contents }
              \cup { LongBlock(x, y) : x \in Contents, y \in Contents }
BlockTexts ==
    { pre \o Join(bs) \o post :
        pre \in {<<>>, <<"z", NL>>}, bs \in SeqsUpTo(Blocks, MaxBlocks),
        post \in {<<>>, <<NL, "z">>} }

DocTexts == CharTexts \cup FragTexts \cup BlockTexts

\* document texts made of words: running prose for the sentence splitter
Words == { <<"W", "h", "a", "t">>, <<"x">>, <<"x", "?">>, <<"a">>, <<"Q">> }
JoinWith(ws, sep) == Replace(Join(ws), <<NL>>, sep)
WordTexts == { JoinWith(ws, <<" ">>) : ws \in SeqsUpTo(Words, MaxWords) }

ProseTexts == FragTexts \cup WordTexts

\* sentences handed to is_question: words, also with leading or doubled blanks
SentenceWords == Words \cup { <<"I", "s">>, <<>> }
SentenceTexts == { JoinWith(ws, <<" ">>) : ws \in SeqsUpTo(SentenceWords, MaxWords) }

\* the calls of a PDFProcessor method o on the texts of ts
PDFCalls(o, ts) ==
    { [op |-> o, text |-> t, custom_prompt |-> NoPrompt, backend |-> NoCompletion] :
        t \in ts }

(***************************************************************************)
(* Page extraction: extract_text_pypdf, extract_text_pdfplumber            *)
(***************************************************************************)
\* an optional page number: None, or an int
NonePage == [set |-> FALSE, v |-> 0]
Page(n) == [set |-> TRUE, v |-> n]

\* what happens to an exception inside the try block: the except branch returns ''
Failed == [caught |-> TRUE, value |-> <<>>]
Extracted(t) == [caught |-> FALSE, value |-> t]

\* start_idx = (start_page - 1) if start_page is not None else 0
StartIdx(start) == IF start.set THEN start.v - 1 ELSE 0

\* end_idx = min(end_page or total_pages, total_pages): None and 0 are both falsy
EndIdx(end, total) == Min(IF end.set /\ end.v # 0 THEN end.v ELSE total, total)

\* "\n".join(pages[i].extract_text() for i in range(start_idx, end_idx))
PagesText(pages, start_idx, end_idx) == Join(SubSeq(pages, start_idx + 1, end_idx))

extract_text_pypdf(f, start, end) ==
    IF ~f.readable THEN Failed
    ELSE IF StartIdx(start) < 0 \/ StartIdx(start) >= Len(f.pages) THEN Failed
    ELSE IF EndIdx(end, Len(f.pages)) <= StartIdx(start) THEN Failed
    ELSE Extracted(PagesText(f.pages, StartIdx(start), EndIdx(end, Len(f.pages))))

extract_text_pdfplumber(f, start, end) ==
    IF ~f.readable THEN Failed
    ELSE IF StartIdx(start) < 0 \/ StartIdx(start) >= Len(f.pages) THEN Failed
    ELSE IF EndIdx(end, Len(f.pages)) <= StartIdx(start) THEN Failed
    ELSE Extracted(PagesText(f.pages, StartIdx(start), EndIdx(end, Len(f.pages))))

extract_text(f, plumber, start, end) ==
    IF plumber THEN extract_text_pdfplumber(f, start, end)
    ELSE extract_text_pypdf(f, start, end)

\* variant: process_pdf hands an empty text to the parser
NoTextExtracted_Never(t) == FALSE

\* "if not text" in process_pdf
NoTextExtracted(t) == t = <<>>

\* files: one that does not open as a PDF, and PDFs of up to MaxPages pages
Unreadable == [readable |-> FALSE, pages |-> <<>>]
PdfOf(ps) == [readable |-> TRUE, pages |-> ps]
PageTexts == { <<"a">>, <<"b">> }
Pdfs == { Unreadable } \cup { PdfOf(ps) : ps \in SeqsUpTo(PageTexts, MaxPages) }

\* page arguments: None and the ints around the page numbers of the file
PageArgs == { NonePage } \cup { Page(n) : n \in -1 .. MaxPages + 1 }

\* files whose pages hold prose, a Q/A block or nothing
ProsePageTexts ==
    { <<>>, <<"x", "?", " ", "a">>, <<"W", "h", "a", "t", " ", "x">>, ShortBlock(<<"x">>, <<"x">>) }
ProsePdfs == { Unreadable } \cup { PdfOf(ps) : ps \in SeqsUpTo(ProsePageTexts, MaxPages) }

(***************************************************************************)
(* Deck packaging: AnkiDeckGenerator.create_deck, create_cloze_deck        *)
(***************************************************************************)
\* an optional path: None, or a str
NoPath == [set |-> FALSE, v |-> <<>>]
Path(f) == [set |-> TRUE, v |-> f]

\* f"{deck_name}.apkg" and f"{deck_name}_cloze.apkg"
ApkgSuffix == <<".", "a", "p", "k", "g">>
ClozeSuffix == <<"_", "c", "l", "o", "z", "e", ".", "a", "p", "k", "g">>

\* source: str = "Unknown"
UnknownSource == <<"U", "n", "k", "n", "o", "w", "n">>

\* f"{deck_name} (Cloze)"
ClozeDeckName(deck_name) == deck_name \o <<" ", "(", "C", "l", "o", "z", "e", ")">>

\* variant: the note's first two fields change places
BasicNote_Swapped(deck_name, pair, source) ==
    [deck |-> deck_name, model |-> "basic", fields |-> <<pair[2], pair[1], source>>]

\* genanki.Note(model=self.basic_model, fields=[question, answer, source])
BasicNote(deck_name, pair, source) ==
    [deck |-> deck_name, model |-> "basic", fields |-> <<pair[1], pair[2], source>>]

\* the loop of create_deck: one note per pair, in order
BasicNotes(qa_pairs, deck_name, source) ==
    [i \in 1..Len(qa_pairs) |-> BasicNote(deck_name, qa_pairs[i], source)]

\* genanki.Note(model=self.cloze_model, fields=[text, back_extra, source])
ClozeNote(deck_name, item, source) ==
    [deck |-> ClozeDeckName(deck_name), model |-> "cloze",
     fields |-> <<item[1], item[2], source>>]

\* the negation of: '{{c' not in text or '::' not in text or '}}' not in text
HasClozeSyntax(t) ==
    /\ Contains(t, <<"{", "{", "c">>)
    /\ Contains(t, <<":", ":">>)
    /\ Contains(t, <<"}", "}">>)

\* the loop of create_cloze_deck: items without cloze syntax are skipped
RECURSIVE ClozeNotes(_, _, _)
ClozeNotes(items, deck_name, source) ==
    IF items = <<>> THEN <<>>
    ELSE IF HasClozeSyntax(Head(items)[1])
    THEN <<ClozeNote(deck_name, Head(items), source)>> \o ClozeNotes(Tail(items), deck_name, source)
    ELSE ClozeNotes(Tail(items), deck_name, source)

\* variant: a deck without notes is packaged too
NoNotes_Never(deck_notes) == FALSE

\* "if not deck.notes"
NoNotes(deck_notes) == deck_notes = <<>>

\* "return None" before a deck holds a note
NothingToWrite == [returned |-> NoPath, notes |-> <<>>, packages |-> <<>>, caught |-> FALSE]

\* package.write_to_file(output_file); return output_file.  If the write
\* raises (ok is false) the except branch returns None.
Packaged(deck_notes, output_file, ok) ==
    IF ok
    THEN [returned |-> Path(output_file), notes |-> deck_notes,
          packages |-> <<output_file>>, caught |-> FALSE]
    ELSE [returned |-> NoPath, notes |-> deck_notes, packages |-> <<>>, caught |-> TRUE]

create_deck(qa_pairs, deck_name, source, ok) ==
    IF qa_pairs = <<>> THEN NothingToWrite
    ELSE Packaged(BasicNotes(qa_pairs, deck_name, source), deck_name \o ApkgSuffix, ok)

create_cloze_deck(items, deck_name, source, ok) ==
    IF items = <<>> THEN NothingToWrite
    ELSE IF NoNotes(ClozeNotes(items, deck_name, source)) THEN NothingToWrite
    ELSE Packaged(ClozeNotes(items, deck_name, source), deck_name \o ClozeSuffix, ok)

\* the deck name of the calls, and the items of the lists handed over
DeckName == <<"d">>
DeckItems ==
    { << <<"x">>, <<"y">> >>, << <<"w">>, <<"y">> >>,
      << <<"{", "{", "c", "1", ":", ":", "x", "}", "}">>, <<"e">> >>,
      << <<"{", "c", "1", ":", ":", "x", "}">>, <<"e">> >> }
DeckInputs == SeqsUpTo(DeckItems, MaxItems)

\* what the backend answers while the application generates a deck
AppCompletions ==
    BasicCompletions
        \cup { Completion(QARecord \o <<NL, NL>> \o ShortBlock(<<"w">>, <<"y">>)),
               Completion(ShortBlock(<<"x">>, <<"y">>) \o <<NL>> \o QARecord) }

(***************************************************************************)
(* State                                                                   *)
(***************************************************************************)
VARIABLES
    pc,             \* "ready": the call has not run yet; "done": it has returned
    op,             \* the method that is called
    text,           \* its text argument
    custom_prompt,  \* its custom_prompt argument
    backend,        \* what get_llm_completion answers if it is asked
    llm_calls,      \* the get_llm_completion calls made: [query, success, response]
    cloze_items,    \* create_cloze_deletions: the parsed candidates
    nlp_sents,      \* parse_content: the sentences doc.sents reported, if it was asked
    verdict,        \* what is_question returned: "yes", "no"; "none" for other methods
    result,         \* the returned list
    exc,            \* "none", "caught" (except branch ran) or "raised" (propagated)
    pdf,            \* the file at pdf_path: whether it opens as a PDF, and its pages' texts
    use_plumber,    \* extract_text, process_pdf: the use_plumber argument
    start_page,     \* extract_text: the start_page argument, [set, v]; not set is None
    end_page,       \* extract_text: the end_page argument, [set, v]; not set is None
    deck_input,     \* create_deck, create_cloze_deck: the list of items handed over
    disk_ok,        \* whether genanki's write_to_file succeeds if it is called
    create_cloze_var, \* _generate_deck: the "also create cloze" checkbox
    extracted,      \* the text extract_text returned
    trace,          \* the collaborators called, in order
    notes,          \* the notes added to decks: [deck, fields]
    packages,       \* the package files written, in order
    returned,       \* the path a deck method returned, [set, v]; not set is None
    dialogs         \* the message boxes shown: [kind, title, message]

inputs == <<op, text, custom_prompt, backend, pdf, use_plumber, start_page, end_page,
            deck_input, disk_ok, create_cloze_var>>

vars == <<pc, op, text, custom_prompt, backend, llm_calls, cloze_items, nlp_sents, verdict, result, exc,
          pdf, use_plumber, start_page, end_page, deck_input, disk_ok, create_cloze_var,
          extracted, trace, notes, packages, returned, dialogs>>

\* the arguments a method does not take
NoFileArgs ==
    /\ pdf = Unreadable
    /\ use_plumber = FALSE
    /\ start_page = NonePage
    /\ end_page = NonePage

NoDeckArgs ==
    /\ deck_input = <<>>
    /\ disk_ok = TRUE
    /\ create_cloze_var = FALSE

NoTextArgs ==
    /\ text = <<>>
    /\ custom_prompt = NoPrompt
    /\ backend = NoCompletion

\* the call sc is about to run
Called(sc) ==
    /\ op = sc.op
    /\ text = sc.text
    /\ custom_prompt = sc.custom_prompt
    /\ backend = sc.backend
    /\ NoFileArgs
    /\ NoDeckArgs

\* one call of one method, with the completion the backend holds for it
Init ==
    /\ pc = "ready"
    /\ \/ \E sc \in LLMCalls("process_text", NoPrompt, QAResponses) : Called(sc)
       \/ \E sc \in LLMCalls("create_cloze_deletions", UsablePrompt, ClozeResponses) : Called(sc)
       \/ \E sc \in PDFCalls("parse_structured_qa", DocTexts) : Called(sc)
       \/ \E sc \in PDFCalls("parse_content", ProseTexts) : Called(sc)
       \/ \E sc \in PDFCalls("parse_unstructured_text", ProseTexts) : Called(sc)
       \/ \E sc \in PDFCalls("is_question", SentenceTexts) : Called(sc)
       \/ /\ op = "extract_text"
          /\ pdf \in Pdfs
          /\ use_plumber \in BOOLEAN
          /\ start_page \in PageArgs
          /\ end_page \in PageArgs
          /\ NoTextArgs
          /\ NoDeckArgs
       \/ /\ op \in {"create_deck", "create_cloze_deck"}
          /\ deck_input \in DeckInputs
          /\ disk_ok \in BOOLEAN
          /\ create_cloze_var = FALSE
          /\ NoTextArgs
          /\ NoFileArgs
       \/ /\ op = "_generate_deck"
          /\ text \in Texts
          /\ custom_prompt \in CustomPrompts
          /\ backend \in AppCompletions
          /\ disk_ok \in BOOLEAN
          /\ create_cloze_var \in BOOLEAN
          /\ deck_input = <<>>
          /\ NoFileArgs
       \/ /\ op = "process_pdf"
          /\ pdf \in ProsePdfs
          /\ use_plumber \in BOOLEAN
          /\ start_page = NonePage
          /\ end_page = NonePage
          /\ NoTextArgs
          /\ NoDeckArgs
    /\ llm_calls = <<>>
    /\ cloze_items = <<>>
    /\ nlp_sents = <<>>
    /\ verdict = "none"
    /\ result = <<>>
    /\ exc = "none"
    /\ extracted = <<>>
    /\ trace = <<>>
    /\ notes = <<>>
    /\ packages = <<>>
    /\ returned = NoPath
    /\ dialogs = <<>>

\* the values a call leaves behind
Returns(calls, items, sents, res, e) ==
    /\ pc' = "done"
    /\ llm_calls' = calls
    /\ cloze_items' = items
    /\ nlp_sents' = sents
    /\ verdict' = "none"
    /\ result' = res
    /\ exc' = e
    /\ UNCHANGED inputs
    /\ UNCHANGED <<extracted, trace, notes, packages, returned, dialogs>>

\* what a call that does nothing leaves behind
Quiet ==
    [llm_calls |-> <<>>, cloze_items |-> <<>>, nlp_sents |-> <<>>, verdict |-> "none",
     result |-> <<>>, exc |-> "none", extracted |-> <<>>, trace |-> <<>>, notes |-> <<>>,
     packages |-> <<>>, returned |-> NoPath, dialogs |-> <<>>]

\* the call ends and leaves the values of o behind
Leaves(o) ==
    /\ pc' = "done"
    /\ llm_calls' = o.llm_calls
    /\ cloze_items' = o.cloze_items
    /\ nlp_sents' = o.nlp_sents
    /\ verdict' = o.verdict
    /\ result' = o.result
    /\ exc' = o.exc
    /\ extracted' = o.extracted
    /\ trace' = o.trace
    /\ notes' = o.notes
    /\ packages' = o.packages
    /\ returned' = o.returned
    /\ dialogs' = o.dialogs
    /\ UNCHANGED inputs

\* success, response = get_llm_completion(formatted_prompt, self.model)
Call(query) == [query |-> query, success |-> backend.success, response |-> backend.response]

\* variant: the success flag is not looked at
Succeeded_Always(c) == TRUE

\* "if not success: return []"
Succeeded(c) == c.success

\* variant: a failed request is issued a second time
Requests_Retry(query) ==
    IF backend.success THEN <<Call(query)>> ELSE <<Call(query), Call(query)>>

\* the completion requests of one invocation: the single call site
Requests(query) == <<Call(query)>>

(***************************************************************************)
(* LLMProcessor.process_text                                               *)
(***************************************************************************)
ProcessText ==
    /\ pc = "ready"
    /\ op = "process_text"
    /\ LET f == Format(ChoosePrompt(custom_prompt, StandardPrompt), text) IN
       IF ~f.ok
       THEN Returns(<<>>, <<>>, <<>>, <<>>, "caught")
       ELSE Returns(Requests(f.value), <<>>, <<>>,
                    IF ~Succeeded(backend) THEN <<>>
                    ELSE ParseRecords(backend.response, QMarker, AMarker),
                    "none")

(***************************************************************************)
(* LLMProcessor.create_cloze_deletions                                     *)
(***************************************************************************)
\* "not s or not s.strip()"
IsBlank(s) == s = <<>> \/ Strip(s) = <<>>

CreateClozeDeletions ==
    /\ pc = "ready"
    /\ op = "create_cloze_deletions"
    /\ LET f == Format(ChoosePrompt(custom_prompt, default_cloze_prompt), text)
           items == IF ~Succeeded(backend) \/ IsBlank(backend.response) THEN <<>>
                    ELSE ParseRecords(backend.response, TextMarker, ExtraMarker) IN
       IF IsBlank(text)
       THEN Returns(<<>>, <<>>, <<>>, <<>>, "none")
       ELSE IF ~f.ok
       THEN Returns(<<>>, <<>>, <<>>, <<>>, "caught")
       ELSE Returns(Requests(f.value), items, <<>>, ValidateItems(items), "none")

(***************************************************************************)
(* PDFProcessor.parse_structured_qa and PDFProcessor.parse_content         *)
(***************************************************************************)
ParseStructuredQA ==
    /\ pc = "ready"
    /\ op = "parse_structured_qa"
    /\ Returns(<<>>, <<>>, <<>>, parse_structured_qa(text), "none")

\* parse_content returns what parse_unstructured_text returned or raised
ReturnsUnstructured(sents, u) ==
    Returns(<<>>, <<>>, sents, u.pairs, IF u.raised THEN "raised" ELSE "none")

\* parse_unstructured_text called directly
ParseUnstructuredText ==
    /\ pc = "ready"
    /\ op = "parse_unstructured_text"
    /\ \E sents \in Segmentations(text) :
           ReturnsUnstructured(sents, parse_unstructured_text(sents))

\* is_question called directly: it returns a truth value or raises IndexError
IsQuestion ==
    /\ pc = "ready"
    /\ op = "is_question"
    /\ pc' = "done"
    /\ verdict' = IF is_question(text) = "IndexError" THEN "none" ELSE is_question(text)
    /\ exc' = IF is_question(text) = "IndexError" THEN "raised" ELSE "none"
    /\ UNCHANGED <<llm_calls, cloze_items, nlp_sents, result>>
    /\ UNCHANGED inputs
    /\ UNCHANGED <<extracted, trace, notes, packages, returned, dialogs>>

\* variant: the structured result is never used
UseStructured_Never(qa_pairs) == FALSE

\* "if not qa_pairs" is false: the structured result is returned
UseStructured(qa_pairs) == qa_pairs # <<>>

ParseContent ==
    /\ pc = "ready"
    /\ op = "parse_content"
    /\ IF UseStructured(parse_structured_qa(text))
       THEN Returns(<<>>, <<>>, <<>>, parse_structured_qa(text), "none")
       ELSE \E sents \in Segmentations(text) :
           ReturnsUnstructured(sents, parse_unstructured_text(sents))

(***************************************************************************)
(* PDFProcessor.extract_text and PDFProcessor.process_pdf                  *)
(***************************************************************************)
ExtractText ==
    /\ pc = "ready"
    /\ op = "extract_text"
    /\ Leaves([Quiet EXCEPT
           !.extracted = extract_text(pdf, use_plumber, start_page, end_page).value,
           !.exc = IF extract_text(pdf, use_plumber, start_page, end_page).caught
                   THEN "caught" ELSE "none",
           !.trace = <<IF use_plumber THEN "extract_text_pdfplumber" ELSE "extract_text_pypdf">>])

\* process_pdf once extract_text has returned t
ProcessPdfOn(t) ==
    IF NoTextExtracted(t)
    THEN Leaves([Quiet EXCEPT !.extracted = t, !.trace = <<"extract_text">>])
    ELSE IF UseStructured(parse_structured_qa(t))
    THEN Leaves([Quiet EXCEPT !.extracted = t, !.trace = <<"extract_text", "parse_content">>,
                              !.result = parse_structured_qa(t)])
    ELSE \E sents \in Segmentations(t) :
        Leaves([Quiet EXCEPT !.extracted = t, !.trace = <<"extract_text", "parse_content">>,
                             !.nlp_sents = sents,
                             !.result = parse_unstructured_text(sents).pairs,
                             !.exc = IF parse_unstructured_text(sents).raised
                                     THEN "raised" ELSE "none"])

ProcessPdf ==
    /\ pc = "ready"
    /\ op = "process_pdf"
    /\ ProcessPdfOn(extract_text(pdf, use_plumber, NonePage, NonePage).value)

(***************************************************************************)
(* AnkiDeckGenerator.create_deck and AnkiDeckGenerator.create_cloze_deck   *)
(***************************************************************************)
\* what the deck method d left behind
DeckMade(d) ==
    Leaves([Quiet EXCEPT !.returned = d.returned, !.notes = d.notes, !.packages = d.packages,
                         !.exc = IF d.caught THEN "caught" ELSE "none"])

CreateDeck ==
    /\ pc = "ready"
    /\ op = "create_deck"
    /\ DeckMade(create_deck(deck_input, DeckName, UnknownSource, disk_ok))

CreateClozeDeck ==
    /\ pc = "ready"
    /\ op = "create_cloze_deck"
    /\ DeckMade(create_cloze_deck(deck_input, DeckName, UnknownSource, disk_ok))

(***************************************************************************)
(* PDFToAnkiApp._generate_deck                                             *)
(***************************************************************************)
\* self.llm_processor.process_text(text, custom_prompt)
process_text(t, cp) ==
    IF ~Format(ChoosePrompt(cp, StandardPrompt), t).ok
    THEN [calls |-> <<>>, result |-> <<>>]
    ELSE [calls |-> Requests(Format(ChoosePrompt(cp, StandardPrompt), t).value),
          result |-> IF ~Succeeded(backend) THEN <<>>
                     ELSE ParseRecords(backend.response, QMarker, AMarker)]

\* self.llm_processor.create_cloze_deletions(text): no custom prompt is passed
create_cloze_deletions(t) ==
    IF IsBlank(t) \/ ~Format(default_cloze_prompt, t).ok
    THEN [calls |-> <<>>, result |-> <<>>]
    ELSE [calls |-> Requests(Format(default_cloze_prompt, t).value),
          result |-> IF ~Succeeded(backend) \/ IsBlank(backend.response) THEN <<>>
                     ELSE ValidateItems(ParseRecords(backend.response, TextMarker, ExtraMarker))]

\* custom_prompt = self.prompt_text.get(...).strip(); None if it is empty
PromptEntry(cp) == IF cp.set /\ cp.v # <<>> THEN cp ELSE NoPrompt

\* messagebox.showerror("Error", ...) and messagebox.showinfo("Success", ...)
ErrorBox(msg) == [kind |-> "error", title |-> "Error", message |-> msg, output |-> <<>>]
SuccessBox(output_file) ==
    [kind |-> "info", title |-> "Success", message |-> "Anki deck created successfully!",
     output |-> IF output_file.set THEN output_file.v ELSE <<"N", "o", "n", "e">>]

\* variant: an empty list of pairs goes on to the deck generator
NoCards_Never(qa_pairs) == FALSE

\* "if not qa_pairs"
NoCards(qa_pairs) == qa_pairs = <<>>

\* the cloze step found nothing to package: create_cloze_deck is not called
NoClozeDeck == [returned |-> NoPath, notes |-> <<>>, packages |-> <<>>, caught |-> FALSE]

\* the end of _generate_deck: deck d was made from the pairs of p, the cloze
\* step (if ticked) returned c and made deck cd; then the success box is shown
DecksMade(p, d, ticked, c, cd) ==
    Leaves([Quiet EXCEPT
        !.llm_calls = p.calls \o (IF ticked THEN c.calls ELSE <<>>),
        !.result = p.result,
        !.cloze_items = IF ticked THEN c.result ELSE <<>>,
        !.returned = d.returned,
        !.notes = d.notes \o (IF ticked /\ c.result # <<>> THEN cd.notes ELSE <<>>),
        !.packages = d.packages \o (IF ticked /\ c.result # <<>> THEN cd.packages ELSE <<>>),
        !.trace = <<"process_text", "create_deck">>
                    \o (IF ticked THEN <<"create_cloze_deletions">> ELSE <<>>)
                    \o (IF ticked /\ c.result # <<>> THEN <<"create_cloze_deck">> ELSE <<>>),
        !.dialogs = <<SuccessBox(d.returned)>>])

\* _generate_deck once process_text has returned p
GenerateFrom(p, c) ==
    IF NoCards(p.result)
    THEN Leaves([Quiet EXCEPT !.llm_calls = p.calls, !.trace = <<"process_text">>,
                              !.dialogs = <<ErrorBox("No flashcards could be generated.")>>])
    ELSE DecksMade(p, create_deck(p.result, DeckName, DeckName, disk_ok), create_cloze_var, c,
                   IF c.result # <<>>
                   THEN create_cloze_deck(c.result, DeckName, DeckName, disk_ok)
                   ELSE NoClozeDeck)

GenerateDeck ==
    /\ pc = "ready"
    /\ op = "_generate_deck"
    /\ IF Strip(text) = <<>>
       THEN Leaves([Quiet EXCEPT !.dialogs = <<ErrorBox("No text to process. Please load a PDF or enter text manually.")>>])
       ELSE GenerateFrom(process_text(text, PromptEntry(custom_prompt)),
                         create_cloze_deletions(text))

Next ==
    \/ GenerateDeck
    \/ CreateDeck
    \/ CreateClozeDeck
    \/ ExtractText
    \/ ProcessPdf
    \/ ProcessText
    \/ CreateClozeDeletions
    \/ ParseStructuredQA
    \/ ParseContent
    \/ ParseUnstructuredText
    \/ IsQuestion

Spec == Init /\ [][Next]_vars

(***************************************************************************)
(* Vocabulary of the properties                                            *)
(***************************************************************************)
Done(o) == pc = "done" /\ op = o

\* the completion was received and handed to the line parser
ParserRan(o) == Done(o) /\ llm_calls # <<>> /\ llm_calls[1].success

\* the completion text and its lines
Response == llm_calls[1].response
ResponseLines == Split(Response)

Key1 == IF op = "process_text" THEN QMarker ELSE TextMarker
Key2 == IF op = "process_text" THEN AMarker ELSE ExtraMarker

\* the records the line parser produced
ParsedRecords == IF op = "process_text" THEN result ELSE cloze_items

IsKey1Line(l) == StartsWith(Strip(l), Key1)
IsKey2Line(l) == StartsWith(Strip(l), Key2)
Key1Content(l) == Strip(Drop(Strip(l), Len(Key1)))

RemoveAt(seq, i) == SubSeq(seq, 1, i - 1) \o SubSeq(seq, i + 1, Len(seq))

\* number of entries of seq equal to v
Count(seq, v) == Cardinality({ i \in DOMAIN seq : seq[i] = v })

(***************************************************************************)
(* C1                                                                      *)
(***************************************************************************)
QPrefix == <<"Q", ":", " ">>
APrefix == <<"A", ":", " ">>

\* l is 'Q: q' resp. 'A: a' with a non-empty q resp. a that starts with no marker
IsPairLine(l, prefix) ==
    /\ StartsWith(l, prefix)
    /\ Len(l) > Len(prefix)
    /\ ~StartsWith(Drop(l, Len(prefix)), QMarker)
    /\ ~StartsWith(Drop(l, Len(prefix)), AMarker)

\* the text is n >= 0 consecutive line pairs 'Q: q_i', 'A: a_i'
IsPairText(t) ==
    \/ t = <<>>
    \/ LET ls == Split(t) IN
       /\ Len(ls) % 2 = 0
       /\ \A i \in DOMAIN ls : IsPairLine(ls[i], IF i % 2 = 1 THEN QPrefix ELSE APrefix)

\* the tuples (q_i, a_i), trimmed, in order
PairsOf(t) ==
    IF t = <<>> THEN <<>>
    ELSE LET ls == Split(t) IN
         [i \in 1..(Len(ls) \div 2) |->
             <<Strip(Drop(ls[2 * i - 1], 3)), Strip(Drop(ls[2 * i], 3))>>]

\* every q_i is non-empty after trimming
QuestionsNonBlank(t) == \A i \in DOMAIN PairsOf(t) : PairsOf(t)[i][1] # <<>>

\* C1 as stated: a completion made of n line pairs 'Q: q_i' / 'A: a_i' with
\* non-empty q_i, a_i yields exactly the n trimmed tuples in order.
C1_AsStated ==
    (ParserRan("process_text") /\ IsPairText(Response)) => result = PairsOf(Response)

\* C1 (amended): a completion made of n line pairs 'Q: q_i' / 'A: a_i', every
\* q_i non-empty after trimming whitespace and every a_i non-empty, yields
\* exactly the n tuples (q_i, a_i), trimmed, in that order.
C1_PairsInOrder ==
    (ParserRan("process_text") /\ IsPairText(Response) /\ QuestionsNonBlank(Response))
        => result = PairsOf(Response)

\* two different pairs were parsed from a four-line completion
C1_Witness ==
    /\ ParserRan("process_text")
    /\ IsPairText(Response)
    /\ QuestionsNonBlank(Response)
    /\ Len(result) = 2
    /\ result[1] = << <<"x">>, <<"y">> >>
    /\ result[2] = << <<"w">>, <<"y">> >>

(***************************************************************************)
(* C2                                                                      *)
(***************************************************************************)
\* line i is non-blank, starts with neither marker, and lies after a key-1
\* line with no marker line in between
IsContinuationOfKey1(ls, i) ==
    /\ Strip(ls[i]) # <<>>
    /\ ~IsKey1Line(ls[i])
    /\ ~IsKey2Line(ls[i])
    /\ \E j \in 1..(i - 1) :
        /\ IsKey1Line(ls[j])
        /\ \A k \in (j + 1)..(i - 1) : ~IsKey1Line(ls[k]) /\ ~IsKey2Line(ls[k])

\* C2: a non-marker line between a key-1 line and the key-2 marker of that
\* record is dropped: the parsed records equal those of the text without it.
C2_LineDropped ==
    \A o \in {"process_text", "create_cloze_deletions"} :
        ParserRan(o) =>
            \A i \in DOMAIN ResponseLines :
                IsContinuationOfKey1(ResponseLines, i) =>
                    ParsedRecords = ParseRecords(Join(RemoveAt(ResponseLines, i)), Key1, Key2)

(***************************************************************************)
(* C3                                                                      *)
(***************************************************************************)
\* a key-2 marker line follows the key-1 line i before the next key-1 line
HasKey2Marker(ls, i) ==
    /\ IsKey1Line(ls[i])
    /\ \E j \in (i + 1)..Len(ls) :
        /\ IsKey2Line(ls[j])
        /\ \A k \in (i + 1)..j : ~IsKey1Line(ls[k])

\* C3: a record is emitted for a key-1 line only if its key-2 marker line
\* occurred before the next key-1 line or the end of the input.
C3_OnlyWithKey2Marker ==
    \A o \in {"process_text", "create_cloze_deletions"} :
        ParserRan(o) =>
            /\ Len(ParsedRecords)
                   <= Cardinality({ i \in DOMAIN ResponseLines : HasKey2Marker(ResponseLines, i) })
            /\ \A r \in DOMAIN ParsedRecords :
                   \E i \in DOMAIN ResponseLines :
                       /\ HasKey2Marker(ResponseLines, i)
                       /\ ParsedRecords[r][1] = Key1Content(ResponseLines[i])

(***************************************************************************)
(* C4                                                                      *)
(***************************************************************************)
\* C4: every tuple returned by process_text has an answer that is non-empty
\* after trimming whitespace.
C4_AnswerNonEmpty ==
    Done("process_text") => \A i \in DOMAIN result : Strip(result[i][2]) # <<>>

(***************************************************************************)
(* C5                                                                      *)
(***************************************************************************)
\* C5: no record of process_text, create_cloze_deletions or
\* parse_structured_qa has an empty first component after trimming, and a
\* key-1 line with nothing after the marker yields no record.
C5_QuestionNonEmpty ==
    /\ (pc = "done" /\ op \in {"process_text", "create_cloze_deletions", "parse_structured_qa"})
           => \A i \in DOMAIN result : Strip(result[i][1]) # <<>>
    /\ \A o \in {"process_text", "create_cloze_deletions"} :
           ParserRan(o) =>
               /\ \A i \in DOMAIN ParsedRecords : Strip(ParsedRecords[i][1]) # <<>>
               /\ Len(ParsedRecords)
                      <= Cardinality({ i \in DOMAIN ResponseLines :
                                         /\ IsKey1Line(ResponseLines[i])
                                         /\ Key1Content(ResponseLines[i]) # <<>> })

\* a bare 'Q:' line with an answer was skipped and a later record was kept
C5_Witness ==
    /\ ParserRan("process_text")
    /\ Len(ResponseLines) = 4
    /\ IsKey1Line(ResponseLines[1]) /\ Key1Content(ResponseLines[1]) = <<>>
    /\ IsKey2Line(ResponseLines[2])
    /\ IsKey1Line(ResponseLines[3]) /\ Key1Content(ResponseLines[3]) # <<>>
    /\ IsKey2Line(ResponseLines[4])
    /\ Len(result) = 1

(***************************************************************************)
(* C6                                                                      *)
(***************************************************************************)
\* the pairs of the first pattern, in priority order, that yields a pair
RECURSIVE FirstSuccessful(_, _)
FirstSuccessful(pats, t) ==
    IF pats = <<>> THEN <<>>
    ELSE IF PatternPairs(Head(pats), t) # <<>> THEN PatternPairs(Head(pats), t)
    ELSE FirstSuccessful(Tail(pats), t)

\* C6: parse_structured_qa returns exactly the pairs of the first pattern
\* that yields at least one pair; results of different patterns are not merged.
C6_FirstPatternWins ==
    Done("parse_structured_qa") => result = FirstSuccessful(patterns, text)

(***************************************************************************)
(* C7                                                                      *)
(***************************************************************************)
ShortQ == <<"Q", ":", " ">>
ShortA == <<"A", ":", " ">>
LongQ == <<"Q", "u", "e", "s", "t", "i", "o", "n", ":", " ">>
LongA == <<"A", "n", "s", "w", "e", "r", ":", " ">>

\* lines i, i+1 are 'Q: x' / 'A: y' (or the long markers) with non-empty x, y
IsBlockWith(ls, i, qp, ap) ==
    /\ i + 1 <= Len(ls)
    /\ StartsWith(ls[i], qp) /\ Len(ls[i]) > Len(qp)
    /\ StartsWith(ls[i + 1], ap) /\ Len(ls[i + 1]) > Len(ap)

IsBlockAt(ls, i) == IsBlockWith(ls, i, ShortQ, ShortA) \/ IsBlockWith(ls, i, LongQ, LongA)

\* the pair (x, y) of the block at line i
BlockPair(ls, i) ==
    IF IsBlockWith(ls, i, ShortQ, ShortA)
    THEN <<Drop(ls[i], Len(ShortQ)), Drop(ls[i + 1], Len(ShortA))>>
    ELSE <<Drop(ls[i], Len(LongQ)), Drop(ls[i + 1], Len(LongA))>>

\* the text consists of blocks only
IsBlocksOnly(ls) == Len(ls) % 2 = 0 /\ \A i \in DOMAIN ls : i % 2 = 1 => IsBlockAt(ls, i)

\* C7: for a text containing 'Q: x\nA: y' (or 'Question: x\nAnswer: y') the
\* result contains the pair (x, y) exactly once per such block; a text of k
\* blocks yields k pairs, the first question being exactly x.
C7_BlockYieldsPair ==
    Done("parse_structured_qa") =>
        LET ls == Split(text) IN
        /\ \A i \in DOMAIN ls :
               IsBlockAt(ls, i) =>
                   Count(result, BlockPair(ls, i))
                       = Cardinality({ j \in DOMAIN ls :
                                         IsBlockAt(ls, j) /\ BlockPair(ls, j) = BlockPair(ls, i) })
        /\ (text # <<>> /\ IsBlocksOnly(ls)) =>
               /\ Len(result) = Len(ls) \div 2
               /\ result[1][1] = BlockPair(ls, 1)[1]

(***************************************************************************)
(* C8                                                                      *)
(***************************************************************************)
HasNoMarker(t) ==
    /\ ~Contains(t, <<"Q", ":">>)
    /\ ~Contains(t, <<"A", ":">>)
    /\ ~Contains(t, <<"Q", "u", "e", "s", "t", "i", "o", "n", ":">>)
    /\ ~Contains(t, <<"A", "n", "s", "w", "e", "r", ":">>)

\* C8: for a text with none of the markers 'Q:', 'A:', 'Question:',
\* 'Answer:', parse_structured_qa returns nothing and parse_content returns
\* the result of parse_unstructured_text.
C8_NoMarkerFallsBack ==
    /\ (Done("parse_structured_qa") /\ HasNoMarker(text)) => result = <<>>
    /\ (Done("parse_content") /\ HasNoMarker(text)) =>
           /\ nlp_sents \in Segmentations(text)
           /\ result = parse_unstructured_text(nlp_sents).pairs

(***************************************************************************)
(* C9                                                                      *)
(***************************************************************************)
\* single-brace cloze syntax: '{c', '::' and '}' occur, '{{' does not
IsSingleBrace(t) ==
    /\ \E k \in 1..(Len(t) - 1) : t[k] = "{" /\ t[k + 1] = "c"
    /\ \E k \in 1..(Len(t) - 1) : t[k] = ":" /\ t[k + 1] = ":"
    /\ \E k \in 1..Len(t) : t[k] = "}"
    /\ ~\E k \in 1..(Len(t) - 1) : t[k] = "{" /\ t[k + 1] = "{"

\* t with every '{c' turned into '{{c' and every '}' into '}}'
Doubled(t) ==
    Concat([k \in DOMAIN t |->
        IF t[k] = "}" THEN <<"}", "}">>
        ELSE IF t[k] = "{" /\ k < Len(t) /\ t[k + 1] = "c" THEN <<"{", "{">>
        ELSE <<t[k]>>])

\* the text of a candidate after the repair step
Repaired(t) == IF IsSingleBrace(t) THEN Doubled(t) ELSE t

\* the candidates in the order they were parsed, repaired
RepairedItems == [i \in DOMAIN cloze_items |-> <<Repaired(cloze_items[i][1]), cloze_items[i][2]>>]

\* C9: a candidate in single-brace syntax is emitted with every '{c' doubled
\* to '{{c' and every '}' to '}}', its extra unchanged; every other candidate
\* that is emitted, in particular one containing '{{', is emitted unchanged.
C9_ClozeRepair ==
    Done("create_cloze_deletions") =>
        /\ \A i \in DOMAIN cloze_items :
               IsSingleBrace(cloze_items[i][1]) =>
                   <<Doubled(cloze_items[i][1]), cloze_items[i][2]>> \in Range(result)
        /\ Range(result) \subseteq Range(RepairedItems)

\* '{c1::x}' was repaired to '{{c1::x}}'
C9_Witness ==
    /\ Done("create_cloze_deletions")
    /\ \E i \in DOMAIN cloze_items :
           /\ cloze_items[i] = << <<"{", "c", "1", ":", ":", "x", "}">>, <<"e">> >>
           /\ << <<"{", "{", "c", "1", ":", ":", "x", "}", "}">>, <<"e">> >> \in Range(result)

(***************************************************************************)
(* C10                                                                     *)
(***************************************************************************)
\* the text contains all of '{{c', '::' and '}}'
IsAcceptable(t) ==
    /\ \E k \in 1..(Len(t) - 2) : t[k] = "{" /\ t[k + 1] = "{" /\ t[k + 2] = "c"
    /\ \E k \in 1..(Len(t) - 1) : t[k] = ":" /\ t[k + 1] = ":"
    /\ \E k \in 1..(Len(t) - 1) : t[k] = "}" /\ t[k + 1] = "}"

\* C10: after the repair step a candidate is in the output if and only if
\* its text contains all of '{{c', '::' and '}}'.
C10_AcceptIff ==
    Done("create_cloze_deletions") =>
        /\ \A i \in DOMAIN RepairedItems :
               IsAcceptable(RepairedItems[i][1]) <=> RepairedItems[i] \in Range(result)
        /\ Len(result) = Cardinality({ i \in DOMAIN RepairedItems : IsAcceptable(RepairedItems[i][1]) })

\* one candidate was rejected and another accepted in the same call
C10_Witness ==
    /\ Done("create_cloze_deletions")
    /\ Len(cloze_items) = 2
    /\ Len(result) = 1
    /\ ~IsAcceptable(RepairedItems[1][1])
    /\ IsAcceptable(RepairedItems[2][1])

(***************************************************************************)
(* C11                                                                     *)
(***************************************************************************)
IsDigit(c) == c \in {"0", "1", "2", "3", "4", "5", "6", "7", "8", "9"}

\* end of the run of digits starting at i
RECURSIVE DigitsEnd(_, _)
DigitsEnd(t, i) == IF i <= Len(t) /\ IsDigit(t[i]) THEN DigitsEnd(t, i + 1) ELSE i

\* '{{c', digits that are not all zero, '::', any content and '}}' start at i
IsMarkerAt(t, i) ==
    /\ HasAt(t, i, <<"{", "{", "c">>)
    /\ DigitsEnd(t, i + 3) > i + 3
    /\ \E k \in (i + 3)..(DigitsEnd(t, i + 3) - 1) : t[k] # "0"
    /\ HasAt(t, DigitsEnd(t, i + 3), <<":", ":">>)
    /\ \E k \in (DigitsEnd(t, i + 3) + 2)..(Len(t) - 1) : t[k] = "}" /\ t[k + 1] = "}"

HasWellFormedMarker(t) == \E i \in 1..Len(t) : IsMarkerAt(t, i)

\* C11: every item returned by create_cloze_deletions has a text containing
\* at least one well-formed cloze marker '{{c<N>::<content>}}': '{{c', the
\* digits of a positive integer, '::', content and '}}', in that order.
C11_WellFormedMarker ==
    Done("create_cloze_deletions") =>
        \A i \in DOMAIN result : HasWellFormedMarker(result[i][1])

(***************************************************************************)
(* C12                                                                     *)
(***************************************************************************)
\* C12: the repair-and-validate step is idempotent: applied to the items it
\* returned it returns them unchanged, validate(validate(R)) = validate(R).
C12_ValidateIdempotent ==
    Done("create_cloze_deletions") => ValidateItems(result) = result

\* two candidates were accepted, the first after repair, the second as it was
C12_Witness ==
    /\ Done("create_cloze_deletions")
    /\ Len(cloze_items) = 2
    /\ Len(result) = 2
    /\ cloze_items[1][1] # result[1][1]
    /\ cloze_items[2][1] = result[2][1]

(***************************************************************************)
(* C13                                                                     *)
(***************************************************************************)
\* the sentences parse_unstructured_text works on
Sentences == StripAll(nlp_sents)

\* indices, except the last, of the sentences classified as questions
QuestionIndices == { i \in 1..(Len(Sentences) - 1) : is_question(Sentences[i]) = "yes" }

\* the k-th smallest element of the set of indices idx
Nth(idx, k) == CHOOSE i \in idx : Cardinality({ j \in idx : j <= i }) = k

\* C13: parse_unstructured_text returns, in index order, exactly the pairs
\* (sentence[i], sentence[i+1]) for every index i except the last whose
\* sentence is_question classifies as a question.
C13_PairsOfQuestions ==
    Done("parse_unstructured_text") =>
        /\ exc = "none"
        /\ Len(result) = Cardinality(QuestionIndices)
        /\ \A k \in DOMAIN result :
               result[k] = <<Sentences[Nth(QuestionIndices, k)],
                             Sentences[Nth(QuestionIndices, k) + 1]>>

(***************************************************************************)
(* C14                                                                     *)
(***************************************************************************)
\* C14: is_question applied to the empty sentence returns false and does
\* not raise.
C14_EmptyIsNoQuestion ==
    (Done("is_question") /\ text = <<>>) => (verdict = "no" /\ exc = "none")

(***************************************************************************)
(* C15                                                                     *)
(***************************************************************************)
\* C15: parse_content returns the result of parse_structured_qa as it is
\* when that result is non-empty, without using parse_unstructured_text;
\* otherwise it ends as parse_unstructured_text does on the same text, with
\* the same (possibly empty) result.
C15_StructuredFirst ==
    Done("parse_content") =>
        IF parse_structured_qa(text) # <<>>
        THEN /\ result = parse_structured_qa(text)
             /\ nlp_sents = <<>>
             /\ exc = "none"
        ELSE /\ nlp_sents \in Segmentations(text)
             /\ result = parse_unstructured_text(nlp_sents).pairs
             /\ (exc = "raised") = parse_unstructured_text(nlp_sents).raised

\* no structured pair was found and the sentence heuristic produced a pair
C15_Witness ==
    /\ Done("parse_content")
    /\ parse_structured_qa(text) = <<>>
    /\ Len(nlp_sents) = 2
    /\ result = << StripAll(nlp_sents) >>

(***************************************************************************)
(* C16                                                                     *)
(***************************************************************************)
IsLLMMethod == op \in {"process_text", "create_cloze_deletions"}

\* the string is empty or consists of whitespace only
IsWhitespaceOnly(s) == \A i \in DOMAIN s : IsSpace(s[i])

\* the completion call was made and reported failure or a blank completion
CompletionUnusable ==
    /\ llm_calls # <<>>
    /\ ~llm_calls[1].success \/ IsWhitespaceOnly(llm_calls[1].response)

\* C16: if the completion call reports failure, whatever the error text, or
\* the completion is empty or whitespace-only, process_text and
\* create_cloze_deletions return an empty list and do not raise.
C16_FailureYieldsEmpty ==
    (pc = "done" /\ IsLLMMethod /\ CompletionUnusable) =>
        (result = <<>> /\ exc # "raised")

\* a failed call whose error text reads like a record returned nothing
C16_Witness ==
    /\ pc = "done"
    /\ IsLLMMethod
    /\ llm_calls # <<>>
    /\ ~llm_calls[1].success
    /\ llm_calls[1].response \in {QARecord, ClozeRecord}
    /\ result = <<>>

(***************************************************************************)
(* C17                                                                     *)
(***************************************************************************)
\* C17: for an empty or whitespace-only input text process_text and
\* create_cloze_deletions return an empty list and raise nothing, whatever
\* the completion backend would answer.
C17_BlankTextYieldsEmpty ==
    (pc = "done" /\ IsLLMMethod /\ IsWhitespaceOnly(text)) =>
        (result = <<>> /\ exc # "raised")

(***************************************************************************)
(* C18                                                                     *)
(***************************************************************************)
\* C18: one invocation of process_text or create_cloze_deletions calls
\* get_llm_completion at most once; in particular a call that reports
\* failure is followed by no further request.
C18_NoRetry ==
    IsLLMMethod => Len(llm_calls) <= 1

\* the only request of the invocation failed and the invocation returned
C18_Witness ==
    /\ pc = "done"
    /\ IsLLMMethod
    /\ Len(llm_calls) = 1
    /\ ~llm_calls[1].success
    /\ llm_calls[1].response = <<"e", "r", "r">>

(***************************************************************************)
(* C19                                                                     *)
(***************************************************************************)
NonBlank(l) == Strip(l) # <<>>
Key2Content(l) == Strip(Drop(Strip(l), Len(Key2)))

\* the record opened by the key-1 line i of the lines ls ends before line RecordEnd(ls, i)
RecordEnd(ls, i) ==
    IF \E j \in (i + 1)..Len(ls) : IsKey1Line(ls[j])
    THEN CHOOSE j \in (i + 1)..Len(ls) :
             /\ IsKey1Line(ls[j])
             /\ \A k \in (i + 1)..(j - 1) : ~IsKey1Line(ls[k])
    ELSE Len(ls) + 1

\* the key-2 marker lines among the lines i+1 .. e-1, and the last of them
Key2Lines(ls, i, e) == { m \in (i + 1)..(e - 1) : IsKey2Line(ls[m]) }
LastKey2Line(ls, i, e) == CHOOSE m \in Key2Lines(ls, i, e) : \A n \in Key2Lines(ls, i, e) : n <= m

\* the record opened by line i is emitted: its key 1 and its body are not blank
IsEmitted(ls, i) ==
    /\ IsKey1Line(ls[i])
    /\ Key1Content(ls[i]) # <<>>
    /\ \E m \in (i + 1)..(RecordEnd(ls, i) - 1) : NonBlank(ls[m])

\* its position among the emitted records
RecordIndex(ls, i) == Cardinality({ j \in 1..i : IsEmitted(ls, j) })

\* the remainder of the key-2 marker line m and the non-blank lines after it
\* up to line e-1, each trimmed, joined by newline, the whole trimmed
Key2FieldFrom(ls, m, e) ==
    Strip(Join(<<Key2Content(ls[m])>> \o StripAll(SelectSeq(SubSeq(ls, m + 1, e - 1), NonBlank))))

\* the record opened by line i has a key-2 marker line and is made of the last one
LastKey2Wins(ls, records, i) ==
    (IsEmitted(ls, i) /\ Key2Lines(ls, i, RecordEnd(ls, i)) # {}) =>
        /\ RecordIndex(ls, i) \in DOMAIN records
        /\ records[RecordIndex(ls, i)]
               = <<Key1Content(ls[i]),
                   Key2FieldFrom(ls, LastKey2Line(ls, i, RecordEnd(ls, i)), RecordEnd(ls, i))>>

AllLastKey2Win(ls, records) == \A i \in DOMAIN ls : LastKey2Wins(ls, records, i)

\* C19: a key-2 marker line starts the key-2 accumulation afresh: the key-2
\* field of an emitted record consists only of the remainder of the last
\* 'A:' (or 'Extra:') line of the record and the non-blank lines after it,
\* joined by newline; what was accumulated before that line is discarded.
C19_LastKey2Wins ==
    (ParserRan("process_text") \/ ParserRan("create_cloze_deletions")) =>
        AllLastKey2Win(ResponseLines, ParsedRecords)

\* line i opens a record with two 'A:' lines and another line before the last
TwoKey2Lines(ls, i) ==
    /\ IsEmitted(ls, i)
    /\ Cardinality(Key2Lines(ls, i, RecordEnd(ls, i))) = 2
    /\ \E m \in (i + 1)..(LastKey2Line(ls, i, RecordEnd(ls, i)) - 1) :
           NonBlank(ls[m]) /\ ~IsKey2Line(ls[m])

\* a record with two 'A:' lines and a line in between kept only the last 'A:'
C19_Witness ==
    /\ ParserRan("process_text")
    /\ \E i \in DOMAIN ResponseLines :
           /\ TwoKey2Lines(ResponseLines, i)
           /\ ParsedRecords[RecordIndex(ResponseLines, i)] = << <<"x">>, <<"y">> >>

(***************************************************************************)
(* C20                                                                     *)
(***************************************************************************)
InsertAt(seq, i, v) == SubSeq(seq, 1, i - 1) \o <<v>> \o SubSeq(seq, i, Len(seq))

\* the records the line parser makes of the lines ls
RecordsOf(ls) == ParseRecords(Join(ls), Key1, Key2)

\* deleting any blank line of ls, or inserting one anywhere, yields records
BlankLinesIgnored(ls, records) ==
    /\ \A i \in DOMAIN ls :
           ~NonBlank(ls[i]) => RecordsOf(RemoveAt(ls, i)) = records
    /\ \A i \in 1..(Len(ls) + 1) :
           \A blank \in {<<>>, <<" ">>} : RecordsOf(InsertAt(ls, i, blank)) = records

\* C20: blank (empty or whitespace-only) lines are ignored by the completion
\* parser: deleting a blank line of the completion, or inserting one at any
\* position, leaves the sequence of records unchanged.
C20_BlankLinesIgnored ==
    (ParserRan("process_text") \/ ParserRan("create_cloze_deletions")) =>
        BlankLinesIgnored(ResponseLines, ParsedRecords)

\* the lines ls have a blank line between a key-1 line and a key-2 line
BlankInside(ls) ==
    \E i \in 2..(Len(ls) - 1) :
        ~NonBlank(ls[i]) /\ IsKey1Line(ls[i - 1]) /\ IsKey2Line(ls[i + 1])

\* a blank line between a 'Q:' line and its 'A:' line, and a record emitted
C20_Witness ==
    /\ ParserRan("process_text")
    /\ result # <<>>
    /\ BlankInside(ResponseLines)

(***************************************************************************)
(* C21                                                                     *)
(***************************************************************************)
\* indices of the parsed candidates whose text passes the check after repair
AcceptedIndices == { i \in DOMAIN RepairedItems : IsAcceptable(RepairedItems[i][1]) }

\* C21: an invalid cloze candidate is dropped without stopping processing:
\* the output is the order-preserving subsequence of the parsed candidates
\* made of the valid ones, so a rejected candidate never keeps a later valid
\* one from being emitted, and every emitted extra is the parsed extra.
C21_DropAndContinue ==
    Done("create_cloze_deletions") =>
        /\ Len(result) = Cardinality(AcceptedIndices)
        /\ \A k \in DOMAIN result :
               /\ result[k][1] = RepairedItems[Nth(AcceptedIndices, k)][1]
               /\ result[k][2] = cloze_items[Nth(AcceptedIndices, k)][2]

\* a valid candidate was emitted although the candidate before it was rejected
C21_Witness ==
    /\ Done("create_cloze_deletions")
    /\ \E i \in DOMAIN cloze_items :
           /\ i > 1
           /\ (i - 1) \notin AcceptedIndices
           /\ i \in AcceptedIndices
           /\ result[Len(result)][2] = cloze_items[i][2]
           /\ i = Len(cloze_items)

(***************************************************************************)
(* C22                                                                     *)
(***************************************************************************)
\* the source region of the match m found at p, if its pair is kept
KeptSpan(m, p) ==
    IF Strip(m.q) # <<>> /\ Strip(m.a) # <<>> THEN <<[from |-> p, to |-> m.end - 1]>> ELSE <<>>

\* the source regions of the pairs a pattern contributes, in findall order
RECURSIVE MatchSpans(_, _, _)
MatchSpans(pat, t, p) ==
    IF p > Len(t) THEN <<>>
    ELSE IF MatchAt(pat, t, p) = <<>> THEN MatchSpans(pat, t, p + 1)
    ELSE KeptSpan(MatchAt(pat, t, p)[1], p)
             \o MatchSpans(pat, t, NextStart(MatchAt(pat, t, p)[1], p))

\* the source regions of the pairs of the result, in result order
ResultSpans(t) == MatchSpans(PlainPattern, t, 1) \o MatchSpans(HashPattern, t, 1)

PairwiseDisjoint(spans) ==
    \A k, l \in DOMAIN spans :
        k < l => (spans[k].to < spans[l].from \/ spans[l].to < spans[k].from)

\* C22: parse_structured_qa never returns overlapping matches: the source
\* regions any two pairs of its result were captured from are disjoint (so
\* no pair's question includes text of another pair's answer).
C22_NoOverlap ==
    Done("parse_structured_qa") =>
        /\ Len(ResultSpans(text)) = Len(result)
        /\ PairwiseDisjoint(ResultSpans(text))

(***************************************************************************)
(* C23                                                                     *)
(***************************************************************************)
\* the first token of the sentence, lower-cased, is one of the words ws
FirstWordIn(t, ws) == FirstToken(t) # <<>> /\ LowerStr(FirstToken(t)[1]) \in ws

\* the classification by first match: '?' anywhere, a question word first,
\* an auxiliary verb first, otherwise no question
ClassifiedAsQuestion(t) ==
    \/ \E i \in DOMAIN t : t[i] = "?"
    \/ FirstWordIn(t, question_words)
    \/ FirstWordIn(t, aux_verbs)

\* C23: is_question returns true if the sentence contains '?', else true if
\* its first token, lower-cased, is a question word, else true if it is an
\* auxiliary verb, and false otherwise.
C23_FirstMatchWins ==
    Done("is_question") =>
        /\ exc = "none"
        /\ verdict = (IF ClassifiedAsQuestion(text) THEN "yes" ELSE "no")

(***************************************************************************)
(* C28                                                                     *)
(***************************************************************************)
\* the tuple of the record 'Text: {{c1::x}}' / 'Extra: e'
ClozeRecordItem == << <<"{", "{", "c", "1", ":", ":", "x", "}", "}">>, <<"e">> >>

\* C28: with custom_prompt omitted and a non-empty input text,
\* create_cloze_deletions always reaches the completion request, and a
\* completion that is one well-formed 'Text:' / 'Extra:' record is returned
\* as that one tuple.
C28_DefaultPromptWorks ==
    (Done("create_cloze_deletions") /\ ~custom_prompt.set /\ ~IsWhitespaceOnly(text)) =>
        /\ Len(llm_calls) = 1
        /\ backend = Completion(ClozeRecord) => result = <<ClozeRecordItem>>


(***************************************************************************)
(* C24                                                                     *)
(***************************************************************************)
\* the validation of the page range raises ValueError
RangeRejected(T) ==
    \/ StartIdx(start_page) < 0
    \/ StartIdx(start_page) >= T
    \/ EndIdx(end_page, T) <= StartIdx(start_page)

\* a parser was run
ParserCalled ==
    \E i \in 1..Len(trace) :
        trace[i] \in {"parse_content", "parse_structured_qa", "parse_unstructured_text"}

\* C24: extract_text, on either path, never raises; it returns '' when the
\* file does not open as a PDF or the page range is rejected, and process_pdf
\* then returns [] without running a parser.
C24_ExtractNeverRaises ==
    /\ Done("extract_text") =>
           /\ exc # "raised"
           /\ (~pdf.readable \/ RangeRejected(Len(pdf.pages))) => extracted = <<>>
    /\ (Done("process_pdf") /\ extracted = <<>>) =>
           /\ exc # "raised"
           /\ result = <<>>
           /\ ~ParserCalled
    /\ (Done("process_pdf") /\ ~pdf.readable) => extracted = <<>>

C24_Witness ==
    /\ Done("process_pdf")
    /\ ~pdf.readable
    /\ extracted = <<>>
    /\ result = <<>>
    /\ trace = <<"extract_text">>

(***************************************************************************)
(* C25                                                                     *)
(***************************************************************************)
EndsWith(s, suffix) ==
    /\ Len(s) >= Len(suffix)
    /\ SubSeq(s, Len(s) - Len(suffix) + 1, Len(s)) = suffix

\* the item's text holds '{{c', '::' and '}}'
PassesClozeCheck(item) ==
    /\ Contains(item[1], <<"{", "{", "c">>)
    /\ Contains(item[1], <<":", ":">>)
    /\ Contains(item[1], <<"}", "}">>)

\* the list handed over holds nothing the method can use
NothingUsable ==
    \/ deck_input = <<>>
    \/ op = "create_cloze_deck" /\ \A i \in DOMAIN deck_input : ~PassesClozeCheck(deck_input[i])

\* the suffix of the method's package file
SuffixOf(o) == IF o = "create_deck" THEN ApkgSuffix ELSE ClozeSuffix

DeckMethodDone == pc = "done" /\ op \in {"create_deck", "create_cloze_deck"}

\* None was returned and no package was written
ProducedNothing == returned = NoPath /\ packages = <<>>

\* the claim as stated: with something usable a path with the suffix is returned
C25_AsStated ==
    DeckMethodDone =>
        IF NothingUsable THEN ProducedNothing
        ELSE returned.set /\ EndsWith(returned.v, SuffixOf(op))

\* C25: create_deck given an empty list, and create_cloze_deck given an empty
\* list or no item that passes the cloze-syntax check, return None and write
\* no package; otherwise the method writes one package and returns its path,
\* which ends in '.apkg' (respectively '_cloze.apkg'), unless writing the
\* package raises, in which case it returns None.
C25_NothingUsable ==
    DeckMethodDone =>
        IF NothingUsable THEN ProducedNothing /\ exc = "none"
        ELSE IF disk_ok
        THEN /\ returned.set
             /\ EndsWith(returned.v, SuffixOf(op))
             /\ packages = <<returned.v>>
             /\ exc = "none"
        ELSE returned = NoPath /\ exc = "caught"

C25_Witness ==
    /\ Done("create_cloze_deck")
    /\ Len(deck_input) = 2
    /\ NothingUsable
    /\ ProducedNothing

(***************************************************************************)
(* C26                                                                     *)
(***************************************************************************)
\* the fields of the notes added to the deck, in the order they were added
NoteFields == [i \in DOMAIN notes |-> notes[i].fields]

\* [question, answer, source] of every pair of ps, in order
FieldsOf(ps, source) == [i \in DOMAIN ps |-> <<ps[i][1], ps[i][2], source>>]

\* C26: for a non-empty sequence of pairs handed to create_deck the notes
\* added to the deck are one per pair, in the same order, with the fields
\* [question, answer, source].
C26_NotesRoundTrip ==
    (Done("create_deck") /\ deck_input # <<>>) =>
        NoteFields = FieldsOf(deck_input, UnknownSource)

C26_Witness ==
    /\ Done("create_deck")
    /\ Len(deck_input) = 3
    /\ deck_input[1] # deck_input[2]
    /\ deck_input[1] = deck_input[3]
    /\ Len(notes) = 3
    /\ returned.set

(***************************************************************************)
(* C27                                                                     *)
(***************************************************************************)
\* the collaborator was called during the invocation
WasCalled(name) == \E i \in DOMAIN trace : trace[i] = name

\* a box of that kind was shown
Shown(kind) == \E i \in DOMAIN dialogs : dialogs[i].kind = kind

\* C27: when process_text produces zero Q/A records in _generate_deck the
\* user is shown an error message and neither create_deck nor
\* create_cloze_deck runs afterwards, even if the cloze checkbox is ticked.
C27_ZeroRecordsStop ==
    (Done("_generate_deck") /\ WasCalled("process_text") /\ result = <<>>) =>
        /\ Shown("error")
        /\ ~Shown("info")
        /\ ~WasCalled("create_deck")
        /\ ~WasCalled("create_cloze_deck")
        /\ notes = <<>>
        /\ packages = <<>>

C27_Witness ==
    /\ Done("_generate_deck")
    /\ WasCalled("process_text")
    /\ llm_calls # <<>>
    /\ llm_calls[1].success
    /\ result = <<>>
    /\ create_cloze_var
    /\ dialogs = <<ErrorBox("No flashcards could be generated.")>>

(***************************************************************************)
(* C29                                                                     *)
(***************************************************************************)
\* C29: _generate_deck shows the 'Success' dialog only if create_deck
\* returned a path, that is a package was written; whenever create_deck
\* returns None the invocation ends with an error box and no success box.
C29_SuccessOnlyIfWritten ==
    Done("_generate_deck") =>
        /\ Shown("info") => (returned.set /\ packages # <<>>)
        /\ (WasCalled("create_deck") /\ ~returned.set) => (Shown("error") /\ ~Shown("info"))

(***************************************************************************)
(* C30                                                                     *)
(***************************************************************************)
\* the 1-based first and last page the arguments ask for, in a file of T pages
FirstPage == IF start_page.set THEN start_page.v ELSE 1
LastPage(T) == Min(IF end_page.set THEN end_page.v ELSE T, T)
Selectable(T) == 1 <= FirstPage /\ FirstPage <= T /\ FirstPage <= LastPage(T)

\* C30: for a PDF of T pages both extraction methods return the text of the
\* pages start..min(end, T) (start defaults to 1, end to T) when
\* 1 <= start <= T and start <= min(end, T), and '' for every other start
\* and end, end = 0 and negative ends included; both select the same pages.
C30_PageRange ==
    (Done("extract_text") /\ pdf.readable) =>
        /\ extracted = IF Selectable(Len(pdf.pages))
                       THEN Join(SubSeq(pdf.pages, FirstPage, LastPage(Len(pdf.pages))))
                       ELSE <<>>
        /\ extract_text_pypdf(pdf, start_page, end_page)
               = extract_text_pdfplumber(pdf, start_page, end_page)

====
